---- MODULE Spec2Model ----
(***************************************************************************)
(* Sensor dashboard (sensor-dashboard-plotly): the bounded history buffer  *)
(* recent_readings, the per-connection /stream generators of app.py, the   *)
(* connection counter of DashboardMetrics, and detect_anomalies of         *)
(* utils.py.                                                               *)
(*                                                                         *)
(* Units: a datetime is [sec, micro]; temperatures are tenths of a degree  *)
(* (round(x, 1) keeps one decimal).  The string datetime.isoformat()       *)
(* produces is modelled by its two parts: the text up to the seconds and   *)
(* the optional fraction.                                                  *)
(***************************************************************************)
EXTENDS Integers, Sequences, FiniteSets, TLC

VARIABLES
    now,              \* the wall clock read by datetime.now()
    recent_readings,  \* utils.recent_readings, deque(maxlen=100)
    appended,         \* history: every reading ever appended, in append order
    subs,             \* one record per /stream connection and its generator
    connection_count, \* metrics.connection_count
    elapsed,          \* seconds the clock has advanced since the run began
    detect,           \* outcome of the last detect_anomalies() call
    response,         \* outcome of the last other read request
    boot              \* position of SensorData._initialize_history

vars ==
    <<now, recent_readings, appended, subs, connection_count, elapsed, detect,
      response, boot>>

(***************************************************************************)
(* Program constants                                                       *)
(***************************************************************************)
MaxLenDeque == 100
BootstrapCount == 50
BootstrapSpacing == 12
WarmupSeconds == 600
SleepSeconds == 3
MinSample == 10
ZThreshold == 2
MinTemp == 180
MaxTemp == 260
MinHumidity == 300
MaxHumidity == 650
MinPressure == 10000
MaxPressure == 10300

(***************************************************************************)
(* Bounds of the model                                                     *)
(***************************************************************************)
MaxConnections == 2   \* /stream connections made during a run
MaxTicks == 3         \* seconds the clock advances during a run
WarmAppends == 49     \* readings streamed by an earlier viewer (warm start)
MaxSnapshot == 11     \* longest buffer handed to detect_anomalies
MaxSummary == 4       \* longest buffer handed to the other read operations

\* The microsecond of the clock: zero, below a thousand, above a thousand
Micros == {0, 1, 123456}
SubIds == 1..MaxConnections
Temperatures == {MinTemp, MaxTemp}
StreamTemperatures == {MinTemp}

None == [none |-> TRUE]

\* SensorData() has not been constructed yet / has been constructed
Unbooted == [pc |-> "start"]
Booted == [pc |-> "done"]

(***************************************************************************)
(* datetime helpers                                                        *)
(***************************************************************************)
DateTime(s, us) == [sec |-> s, micro |-> us]

PlusSeconds(dt, s) == [dt EXCEPT !.sec = dt.sec + s]

DtLe(a, b) == a.sec < b.sec \/ (a.sec = b.sec /\ a.micro <= b.micro)

DtLt(a, b) == a.sec < b.sec \/ (a.sec = b.sec /\ a.micro < b.micro)

\* datetime.isoformat(): the fraction is written only when microsecond # 0
isoformat(dt) ==
    [text |-> dt.sec, frac |-> IF dt.micro = 0 THEN <<>> ELSE <<dt.micro>>]

\* The instant an isoformat string denotes
InstantOf(str) ==
    DateTime(str.text, IF str.frac = <<>> THEN 0 ELSE str.frac[1])

\* str.strptime(pl.Datetime, "%Y-%m-%dT%H:%M:%S.%f"), strict: the literal
\* "." and the fraction must be present in the string
CanParse(str) == str.frac # <<>>

\* The digits after the "." are read by %f as a number of nanoseconds, and
\* the column keeps microseconds: the six digits isoformat wrote as
\* microseconds come back divided by 1000
NanosPerMicro == 1000

strptime(str) == DateTime(str.text, str.frac[1] \div NanosPerMicro)

(***************************************************************************)
(* SensorData.generate_reading: id is the identity of the dict object.     *)
(* The humidity, pressure and status drawn here are one representative;    *)
(* WithValues gives a reading the other values the generator can draw.     *)
(***************************************************************************)
generate_reading(timestamp, temp, id) ==
    [id |-> id, timestamp |-> isoformat(timestamp), temperature |-> temp,
     humidity |-> MinHumidity, pressure |-> MinPressure, status |-> "normal"]

WithValues(r, v) ==
    [r EXCEPT !.temperature = v.temperature, !.humidity = v.humidity,
              !.pressure = v.pressure, !.status = v.status]

(***************************************************************************)
(* deque(maxlen=100).append                                                *)
(***************************************************************************)
DequeAppendNoEvict(buf, r) == Append(buf, r)

DequeAppend(buf, r) ==
    IF Len(buf) = MaxLenDeque THEN Append(Tail(buf), r) ELSE Append(buf, r)

(***************************************************************************)
(* SensorData._initialize_history: 50 readings, 12 s apart, from           *)
(* base_time = now - 10 minutes                                            *)
(***************************************************************************)
BootstrapTime(start, i) ==
    PlusSeconds(PlusSeconds(start, 0 - WarmupSeconds), i * BootstrapSpacing)

\* history of _initialize_history after n iterations of its loop
BootstrapHistory(start, n, temps) ==
    [k \in 1..n |->
        generate_reading(BootstrapTime(start, k - 1), temps[k], k)]

\* Readings an earlier /stream generator appended, one per sleep interval
EarlierStream(start, n, temp) ==
    [k \in 1..n |->
        generate_reading(PlusSeconds(start, (k - 1) * SleepSeconds), temp,
                         BootstrapCount + k)]

\* deque.extend(history): the deque keeps the last maxlen items
ExtendAll(buf, rs) ==
    LET all == buf \o rs
    IN IF Len(all) <= MaxLenDeque THEN all
       ELSE SubSeq(all, Len(all) - MaxLenDeque + 1, Len(all))

(***************************************************************************)
(* DashboardMetrics                                                        *)
(***************************************************************************)
track_connection(c) == c + 1

track_disconnection(c) == IF c - 1 > 0 THEN c - 1 ELSE 0

(***************************************************************************)
(* /stream: one generator per connection                                   *)
(*   pc: "absent"  no such connection yet                                  *)
(*       "created" handler returned EventSourceResponse, generator not     *)
(*                 yet started                                             *)
(*       "yield"   suspended at the yield, event handed to the response    *)
(*       "sleep"   suspended in await asyncio.sleep(3)                     *)
(*       "closed"  generator finished                                      *)
(***************************************************************************)
NoSub ==
    [pc |-> "absent", wake |-> None, received |-> <<>>, since |-> 0,
     closedAt |-> 0, closedTime |-> None]

IsOpen(sub) == sub.pc \in {"created", "yield", "sleep"}

OpenSubs == {s \in SubIds : IsOpen(subs[s])}

\* The event the generator yields for a freshly appended reading
SensorUpdateStale(buf, data) == [event |-> "sensor_update", data |-> Head(buf)]

SensorUpdate(buf, data) == [event |-> "sensor_update", data |-> data]

\* Ending one generator: the connection's record is dropped; what is kept
\* is when it ended (closedAt: the number of readings appended by then;
\* closedTime: the clock)
Ended(at, time) ==
    [NoSub EXCEPT !.pc = "closed", !.closedAt = at, !.closedTime = time]

CloseEvery(S, s, at, time) ==
    [t \in SubIds |-> IF IsOpen(S[t]) THEN Ended(at, time) ELSE S[t]]

CloseSub(S, s, at, time) == [S EXCEPT ![s] = Ended(at, time)]

Due(sub) == sub.pc = "sleep" /\ DtLe(sub.wake, now)

\* One pass of the while-loop body up to the yield (app.py 98-107)
LoopBody(s, temp) ==
    LET data == generate_reading(now, temp, Len(appended) + 1)
        buf == DequeAppend(recent_readings, data)
    IN /\ recent_readings' = buf
       /\ appended' = Append(appended, data)
       /\ subs' = [subs EXCEPT ![s].pc = "yield",
                               ![s].wake = None,
                               ![s].received =
                                   Append(@, SensorUpdate(buf, data))]
       /\ UNCHANGED <<now, connection_count, elapsed, detect, response, boot>>

\* GET /stream: track_connection, build the generator, return the response
Connect ==
    \E s \in SubIds :
        /\ subs[s].pc = "absent"
        /\ \A t \in SubIds : t < s => subs[t].pc # "absent"
        /\ connection_count' = track_connection(connection_count)
        /\ subs' = [subs EXCEPT ![s].pc = "created",
                                ![s].since = Len(appended)]
        /\ UNCHANGED <<now, recent_readings, appended, elapsed, detect, response, boot>>

\* First __anext__: the generator runs from its start to the first yield
Start(s) ==
    /\ subs[s].pc = "created"
    /\ \E temp \in StreamTemperatures : LoopBody(s, temp)

\* The response sent the event and asks for the next one: runs to the sleep
Resume(s) ==
    /\ subs[s].pc = "yield"
    /\ subs' = [subs EXCEPT ![s].pc = "sleep",
                            ![s].wake = PlusSeconds(now, SleepSeconds)]
    /\ UNCHANGED <<now, recent_readings, appended, connection_count, elapsed,
                   detect, response, boot>>

\* asyncio.sleep(3) returns: next pass of the loop
Wake(s) ==
    /\ Due(subs[s])
    /\ \E temp \in StreamTemperatures : LoopBody(s, temp)

\* The client goes away while the generator awaits the sleep:
\* CancelledError is raised at the await (app.py 111-113)
Cancel(s) ==
    /\ subs[s].pc = "sleep"
    /\ connection_count' = track_disconnection(connection_count)
    /\ subs' = CloseSub(subs, s, Len(appended), now)
    /\ UNCHANGED <<now, recent_readings, appended, elapsed, detect, response, boot>>

\* The generator is closed (aclose) before its first step or while it is
\* suspended at the yield: GeneratorExit is neither CancelledError nor an
\* Exception, so neither handler runs
Close(s) ==
    /\ subs[s].pc \in {"created", "yield"}
    /\ subs' = CloseSub(subs, s, Len(appended), now)
    /\ UNCHANGED <<now, recent_readings, appended, connection_count, elapsed,
                   detect, response, boot>>

\* An Exception is raised inside the try block before the reading is
\* appended (app.py 98, then 114-117)
Fail(s) ==
    /\ subs[s].pc = "created" \/ Due(subs[s])
    /\ connection_count' = track_disconnection(connection_count)
    /\ subs' = CloseSub(subs, s, Len(appended), now)
    /\ UNCHANGED <<now, recent_readings, appended, elapsed, detect, response, boot>>

\* An Exception is raised inside the try block after the reading was
\* appended and before it is yielded (app.py 99-107, then 114-117): the
\* reading stays in the buffer and no event is sent
FailAfterAppend(s) ==
    /\ subs[s].pc = "created" \/ Due(subs[s])
    /\ \E temp \in StreamTemperatures :
           LET data == generate_reading(now, temp, Len(appended) + 1)
           IN /\ recent_readings' = DequeAppend(recent_readings, data)
              /\ appended' = Append(appended, data)
    /\ connection_count' = track_disconnection(connection_count)
    /\ subs' = CloseSub(subs, s, Len(appended) + 1, now)
    /\ UNCHANGED <<now, elapsed, detect, response, boot>>

\* The wall clock advances one second (its microsecond is kept), whatever
\* the generators are doing
Tick ==
    /\ elapsed < MaxTicks
    /\ now' = PlusSeconds(now, 1)
    /\ elapsed' = elapsed + 1
    /\ UNCHANGED <<recent_readings, appended, subs, connection_count, detect,
                   response, boot>>

\* The state at clock microsecond us after n readings were streamed to an
\* earlier viewer, one every 3 s, which was then cancelled in its sleep
InitAfter(n, us) ==
    \E temp \in StreamTemperatures :
        LET start == DateTime(WarmupSeconds, us)
            hist == BootstrapHistory(start, BootstrapCount,
                                    [k \in 1..BootstrapCount |-> temp])
                        \o EarlierStream(start, n, temp)
        IN /\ now = PlusSeconds(start, n * SleepSeconds)
           /\ appended = hist
           /\ recent_readings = ExtendAll(<<>>, hist)
           /\ subs = [s \in SubIds |-> NoSub]
           /\ connection_count = 0
           /\ elapsed = 0
           /\ detect = None
           /\ response = None
           /\ boot = Booted

\* After import of app.py (sensor = SensorData(); here on a whole second),
\* or after an earlier viewer has streamed WarmAppends readings
Init == InitAfter(0, 0) \/ InitAfter(WarmAppends, 1)

Next ==
    \/ Connect
    \/ \E s \in SubIds : Start(s)
    \/ \E s \in SubIds : Resume(s)
    \/ \E s \in SubIds : Wake(s)
    \/ \E s \in SubIds : Cancel(s)
    \/ \E s \in SubIds : Close(s)
    \/ \E s \in SubIds : Fail(s)
    \/ \E s \in SubIds : FailAfterAppend(s)
    \/ Tick

Spec == Init /\ [][Next]_vars

(***************************************************************************)
(* utils.get_sensor_dataframe and utils.detect_anomalies                   *)
(*                                                                         *)
(* Arithmetic is exact (integers, tenths of a degree).  With n readings,   *)
(* sum S and sum of squares Q:                                             *)
(*    n * (x - mean)          = n*x - S        (ScaledDev)                 *)
(*    n*(n-1) * variance      = n*Q - S*S      (ScaledVar, ddof = 1)       *)
(*    z*z = ScaledDev^2 * (n-1) / (n * ScaledVar)                          *)
(***************************************************************************)
\* The sum of xs[lo..hi], by halves
RECURSIVE SumRange(_, _, _)
SumRange(xs, lo, hi) ==
    IF lo > hi THEN 0
    ELSE IF lo = hi THEN xs[lo]
    ELSE LET mid == (lo + hi) \div 2
         IN SumRange(xs, lo, mid) + SumRange(xs, mid + 1, hi)

SumSeq(xs) == SumRange(xs, 1, Len(xs))

\* The frame cannot be built when a timestamp does not match the format
DataframeRaises(buf) ==
    \E i \in DOMAIN buf : ~CanParse(buf[i].timestamp)

\* pl.DataFrame(list(recent_readings)) with the timestamp column parsed
get_sensor_dataframe(buf) ==
    [k \in DOMAIN buf |->
        [id |-> buf[k].id,
         timestamp |-> strptime(buf[k].timestamp),
         temperature |-> buf[k].temperature,
         humidity |-> buf[k].humidity,
         pressure |-> buf[k].pressure,
         status |-> buf[k].status]]

TempColumn(df) == [k \in DOMAIN df |-> df[k].temperature]

\* n * (x - mean) from the column's length and sum
DevFrom(x, n, sum) == n * x - sum

ScaledDev(x, col) == DevFrom(x, Len(col), SumSeq(col))

ScaledVar(col) ==
    Len(col) * SumSeq([k \in DOMAIN col |-> col[k] * col[k]])
        - SumSeq(col) * SumSeq(col)

NaN == [nan |-> TRUE]

\* (temperature - mean) / std : 0/0 is NaN
ZScoreFrom(dev, var, n) ==
    IF var = 0 /\ dev = 0 THEN NaN
    ELSE [nan |-> FALSE, dev |-> dev, var |-> var, n |-> n]

ZScore(x, col) == ZScoreFrom(ScaledDev(x, col), ScaledVar(col), Len(col))

\* pl.col("temp_zscore").abs() > 2 : Polars orders NaN above every number,
\* so NaN > 2 is true
AbsExceeds(z, threshold) ==
    \/ z.nan
    \/ z.var = 0
    \/ z.dev * z.dev * (z.n - 1) > threshold * threshold * z.n * z.var

detect_anomalies(buf) ==
    IF buf # <<>> /\ DataframeRaises(buf) THEN [raised |-> TRUE]
    ELSE LET df == get_sensor_dataframe(buf)
             col == TempColumn(df)
             n == Len(col)
             sum == SumSeq(col)
             var == ScaledVar(col)
             withz == [k \in DOMAIN df |->
                          [timestamp |-> df[k].timestamp,
                           temperature |-> df[k].temperature,
                           temp_zscore |->
                               ZScoreFrom(DevFrom(df[k].temperature, n, sum),
                                          var, n)]]
             Outlier(row) == AbsExceeds(row.temp_zscore, ZThreshold)
         IN IF Len(df) < MinSample
            THEN [raised |-> FALSE, anomalies |-> <<>>]
            ELSE [raised |-> FALSE, anomalies |-> SelectSeq(withz, Outlier)]

\* A call of detect_anomalies() on the current buffer
DetectAnomalies ==
    /\ detect = None
    /\ detect' = detect_anomalies(recent_readings)
    /\ UNCHANGED <<now, recent_readings, appended, subs, connection_count,
                   elapsed, response, boot>>

\* Buffers handed to detect_anomalies: 0..MaxSnapshot readings 12 s apart
\* with temperatures at either end of the generator's range, and the
\* buffers of 19 readings of 20.0 and one of 40.0
InitDetect ==
    \E us \in Micros :
        LET start == DateTime(WarmupSeconds, us)
        IN /\ \/ \E n \in 0..MaxSnapshot : \E temps \in [1..n -> Temperatures] :
                    recent_readings = BootstrapHistory(start, n, temps)
              \/ \E p \in 1..20 :
                    recent_readings =
                        BootstrapHistory(start, 20,
                            [k \in 1..20 |-> IF k = p THEN 400 ELSE 200])
           /\ appended = recent_readings
           /\ now = start
           /\ subs = [s \in SubIds |-> NoSub]
           /\ connection_count = 0
           /\ elapsed = 0
           /\ detect = None
           /\ response = None
           /\ boot = Booted

NextDetect == DetectAnomalies

SpecDetect == InitDetect /\ [][NextDetect]_vars

(***************************************************************************)
(* utils.get_statistical_summary and the read endpoints of app.py          *)
(***************************************************************************)
Null == [null |-> TRUE]

Column(df, field) == [k \in DOMAIN df |-> df[k][field]]

\* pl.col(c).mean(): the exact quotient num / den
Mean(col) == [num |-> SumSeq(col), den |-> Len(col)]

\* The column with its first value subtracted from every value: the
\* deviations from the mean, and so the variance, are those of the column
Centred(col) == [k \in DOMAIN col |-> col[k] - col[1]]

\* pl.col(c).std(), ddof = 1: sqrt(var / (n * (n - 1))), and null when the
\* column has a single value (n - 1 = 0 degrees of freedom)
Std(col) ==
    IF Len(col) <= 1 THEN Null
    ELSE [null |-> FALSE, var |-> ScaledVar(Centred(col)), n |-> Len(col)]

\* pl.col("status").value_counts(): one {status, count} struct per distinct
\* status, in no particular order
value_counts(col) ==
    {[status |-> st, count |-> Cardinality({k \in DOMAIN col : col[k] = st})] :
        st \in {col[k] : k \in DOMAIN col}}

\* A one-value aggregate selected next to a column of m rows fills m rows
Broadcast(v, m) == [k \in 1..m |-> v]

EmptyDict == [empty |-> TRUE]

get_statistical_summary(buf) ==
    IF buf = <<>> THEN [raised |-> FALSE, stats |-> EmptyDict]
    ELSE IF DataframeRaises(buf) THEN [raised |-> TRUE]
    ELSE LET df == get_sensor_dataframe(buf)
             counts == value_counts(Column(df, "status"))
             m == Cardinality(counts)
         IN [raised |-> FALSE,
             stats |->
               [empty |-> FALSE,
                temp_mean |-> Broadcast(Mean(Column(df, "temperature")), m),
                temp_std |-> Broadcast(Std(Column(df, "temperature")), m),
                humidity_mean |-> Broadcast(Mean(Column(df, "humidity")), m),
                humidity_std |-> Broadcast(Std(Column(df, "humidity")), m),
                pressure_mean |-> Broadcast(Mean(Column(df, "pressure")), m),
                pressure_std |-> Broadcast(Std(Column(df, "pressure")), m),
                status_counts |-> counts]]

\* A call of get_statistical_summary() on the current buffer
GetStatisticalSummary ==
    /\ response = None
    /\ response' = [call |-> "get_statistical_summary"]
                       @@ get_statistical_summary(recent_readings)
    /\ UNCHANGED <<now, recent_readings, appended, subs, connection_count,
                   elapsed, detect, boot>>

\* What one reading can hold besides its timestamp
ReadingValues ==
    {[temperature |-> MinTemp, humidity |-> MinHumidity,
      pressure |-> MinPressure, status |-> "normal"],
     [temperature |-> MaxTemp, humidity |-> MinHumidity,
      pressure |-> MinPressure, status |-> "warning"],
     [temperature |-> MinTemp, humidity |-> MaxHumidity,
      pressure |-> MaxPressure, status |-> "critical"]}

SameValues(r, q) ==
    /\ r.temperature = q.temperature
    /\ r.humidity = q.humidity
    /\ r.pressure = q.pressure
    /\ r.status = q.status

\* Buffers handed to the read operations: 0..MaxSummary readings 12 s apart
InitReads ==
    \E us \in Micros : \E n \in 0..MaxSummary :
        \E vals \in [1..n -> ReadingValues] :
            LET start == DateTime(WarmupSeconds, us)
                plain == BootstrapHistory(start, n, [k \in 1..n |-> MinTemp])
            IN /\ recent_readings =
                      [k \in 1..n |-> WithValues(plain[k], vals[k])]
               /\ appended = recent_readings
               /\ now = start
               /\ subs = [s \in SubIds |-> NoSub]
               /\ connection_count = 0
               /\ elapsed = 0
               /\ detect = None
               /\ response = None
               /\ boot = IF n = 0 THEN Unbooted ELSE Booted

\* A call of get_sensor_dataframe() on the current buffer
GetSensorDataframe ==
    /\ response = None
    /\ response' =
           IF recent_readings # <<>> /\ DataframeRaises(recent_readings)
           THEN [call |-> "get_sensor_dataframe", raised |-> TRUE]
           ELSE [call |-> "get_sensor_dataframe", raised |-> FALSE,
                 df |-> get_sensor_dataframe(recent_readings)]
    /\ UNCHANGED <<now, recent_readings, appended, subs, connection_count,
                   elapsed, detect, boot>>

IndexError == [error |-> "IndexError"]

\* recent_readings[-1] with no check of the buffer
latest_unguarded(buf) == IF buf # <<>> THEN buf[Len(buf)] ELSE IndexError

\* recent_readings[-1] if recent_readings, otherwise None
latest(buf) == IF buf # <<>> THEN buf[Len(buf)] ELSE None

latest_reading_time(buf) ==
    IF buf # <<>> THEN buf[Len(buf)].timestamp ELSE None

\* GET /sensor-data
GetSensorData ==
    /\ response = None
    /\ response' = [call |-> "/sensor-data", raised |-> FALSE,
                    data |-> latest(recent_readings)]
    /\ UNCHANGED <<now, recent_readings, appended, subs, connection_count,
                   elapsed, detect, boot>>

\* GET /metrics
GetMetrics ==
    /\ response = None
    /\ response' = [call |-> "/metrics", raised |-> FALSE,
                    active |-> connection_count,
                    readings_stored |-> Len(recent_readings),
                    latest_reading_time |->
                        latest_reading_time(recent_readings)]
    /\ UNCHANGED <<now, recent_readings, appended, subs, connection_count,
                   elapsed, detect, boot>>

NextReads ==
    \/ GetSensorDataframe
    \/ GetStatisticalSummary
    \/ DetectAnomalies
    \/ GetSensorData
    \/ GetMetrics

SpecReads == InitReads /\ [][NextReads]_vars

(***************************************************************************)
(* SensorData() at import of app.py: __init__ and _initialize_history.     *)
(* The clock may advance while the history is generated.                   *)
(***************************************************************************)
\* base_time = datetime.now() - timedelta(minutes = 10); history = []
BootBegin ==
    /\ boot = Unbooted
    /\ boot' = [pc |-> "loop", started |-> now, i |-> 0, history |-> <<>>]
    /\ UNCHANGED <<now, recent_readings, appended, subs, connection_count,
                   elapsed, detect, response>>

\* One pass of `for i in range(50)`
BootStep ==
    /\ boot.pc = "loop"
    /\ boot.i < BootstrapCount
    /\ \E temp \in StreamTemperatures :
           boot' = [boot EXCEPT
                      !.i = @ + 1,
                      !.history =
                          Append(@, generate_reading(
                                        BootstrapTime(boot.started, boot.i),
                                        temp, boot.i + 1))]
    /\ UNCHANGED <<now, recent_readings, appended, subs, connection_count,
                   elapsed, detect, response>>

\* recent_readings.extend(history)
BootEnd ==
    /\ boot.pc = "loop"
    /\ boot.i = BootstrapCount
    /\ recent_readings' = ExtendAll(recent_readings, boot.history)
    /\ appended' = appended \o boot.history
    /\ boot' = Booted
    /\ UNCHANGED <<now, subs, connection_count, elapsed, detect, response>>

\* A second passes while the history is being generated
BootTick ==
    /\ boot.pc = "loop"
    /\ elapsed < MaxTicks
    /\ now' = PlusSeconds(now, 1)
    /\ elapsed' = elapsed + 1
    /\ UNCHANGED <<recent_readings, appended, subs, connection_count, detect,
                   response, boot>>

InitBoot ==
    \E us \in Micros :
        /\ now = DateTime(WarmupSeconds, us)
        /\ recent_readings = <<>>
        /\ appended = <<>>
        /\ subs = [s \in SubIds |-> NoSub]
        /\ connection_count = 0
        /\ elapsed = 0
        /\ detect = None
        /\ response = None
        /\ boot = Unbooted

NextBoot ==
    \/ BootBegin
    \/ BootStep
    \/ BootEnd
    \/ BootTick

SpecBoot == InitBoot /\ [][NextBoot]_vars

(***************************************************************************)
(* GET /charts next to the /stream generators.                             *)
(*                                                                         *)
(* Every handler and generator is a coroutine of one event loop: a         *)
(* coroutine runs until its next await, and only then can another one run. *)
(* get_charts has no await, so from its first statement to its return no   *)
(* generator step is scheduled.  Its three reads of the buffer are steps   *)
(* of their own; `saw` records the readings each of them found.            *)
(***************************************************************************)
\* get_charts as it would be with an await between its statements
AwaitsBetweenReads == TRUE

\* Whether get_charts gives up the event loop between two of its statements
YieldsLoop == FALSE

\* get_charts has been entered and has not returned
ChartsRunning ==
    /\ response # None
    /\ response.call = "/charts"
    /\ response.pc # "done"

\* Another coroutine can be scheduled
LoopFree == ChartsRunning => YieldsLoop

Ids(buf) == [k \in DOMAIN buf |-> buf[k].id]

\* chart_factory.create_anomaly_highlights(df, anomalies): each anomaly's
\* timestamp, a datetime, is handed to datetime.fromisoformat, which takes
\* a str and raises TypeError
create_anomaly_highlights_raises(rows, anomalies) ==
    rows > 0 /\ anomalies # <<>>

ChartsRaise(r) ==
    [call |-> "/charts", pc |-> "done", raised |-> TRUE, saw |-> r.saw]

\* df = get_sensor_dataframe()
ChartsSnapshot ==
    /\ response = None
    /\ LET r == [call |-> "/charts", pc |-> "anomalies", raised |-> FALSE,
                 saw |-> <<Ids(recent_readings)>>]
       IN response' =
              IF recent_readings # <<>> /\ DataframeRaises(recent_readings)
              THEN ChartsRaise(r)
              ELSE r @@ [rows |-> Len(get_sensor_dataframe(recent_readings))]
    /\ UNCHANGED <<now, recent_readings, appended, subs, connection_count,
                   elapsed, detect, boot>>

\* anomalies = detect_anomalies(), then the four charts drawn from df; the
\* first three charts only read df
ChartsAnomalies ==
    /\ ChartsRunning
    /\ response.pc = "anomalies"
    /\ LET found == detect_anomalies(recent_readings)
           r == [response EXCEPT
                    !.pc = "stats",
                    !.saw = Append(@, Ids(recent_readings))]
       IN response' =
              IF found.raised THEN ChartsRaise(r)
              ELSE IF create_anomaly_highlights_raises(response.rows,
                                                       found.anomalies)
              THEN ChartsRaise(r)
              ELSE r @@ [anomaly_count |-> Len(found.anomalies)]
    /\ UNCHANGED <<now, recent_readings, appended, subs, connection_count,
                   elapsed, detect, boot>>

\* stats = get_statistical_summary(), then the template response
ChartsStats ==
    /\ ChartsRunning
    /\ response.pc = "stats"
    /\ LET summary == get_statistical_summary(recent_readings)
           r == [response EXCEPT
                    !.pc = "done",
                    !.saw = Append(@, Ids(recent_readings))]
       IN response' =
              IF summary.raised THEN ChartsRaise(r)
              ELSE r @@ [stats |-> summary.stats]
    /\ UNCHANGED <<now, recent_readings, appended, subs, connection_count,
                   elapsed, detect, boot>>

\* The clock stands still here: a request is served within one sleep of the
\* generators, and each generator's append is the one of its first pass
NextCharts ==
    \/ LoopFree /\ Connect
    \/ LoopFree /\ \E s \in SubIds : Start(s)
    \/ LoopFree /\ \E s \in SubIds : Resume(s)
    \/ LoopFree /\ \E s \in SubIds : Cancel(s)
    \/ LoopFree /\ \E s \in SubIds : Close(s)
    \/ LoopFree /\ \E s \in SubIds : Fail(s)
    \/ LoopFree /\ \E s \in SubIds : FailAfterAppend(s)
    \/ ChartsSnapshot
    \/ ChartsAnomalies
    \/ ChartsStats

\* As the warm start of Init, with bootstrap temperatures of 18.0 and 18.1
\* in turn: no reading is more than 2 deviations from the mean
InitMixed ==
    LET start == DateTime(WarmupSeconds, 1)
        hist == BootstrapHistory(start, BootstrapCount,
                    [k \in 1..BootstrapCount |->
                        IF k % 2 = 0 THEN MinTemp + 1 ELSE MinTemp])
                    \o EarlierStream(start, WarmAppends, MinTemp)
    IN /\ now = PlusSeconds(start, WarmAppends * SleepSeconds)
       /\ appended = hist
       /\ recent_readings = ExtendAll(<<>>, hist)
       /\ subs = [s \in SubIds |-> NoSub]
       /\ connection_count = 0
       /\ elapsed = 0
       /\ detect = None
       /\ response = None
       /\ boot = Booted

InitCharts == Init \/ InitMixed

SpecCharts == InitCharts /\ [][NextCharts]_vars

(***************************************************************************)
(* Helpers for the properties                                              *)
(***************************************************************************)
LastN(seq, n) ==
    IF Len(seq) <= n THEN seq ELSE SubSeq(seq, Len(seq) - n + 1, Len(seq))

Chronological(buf) ==
    \A i \in 1..(Len(buf) - 1) :
        DtLe(InstantOf(buf[i].timestamp), InstantOf(buf[i + 1].timestamp))

\* No generator is runnable: each is absent, finished, or asleep and not due
Quiescent ==
    \A s \in SubIds :
        subs[s].pc \in {"absent", "closed"}
        \/ (subs[s].pc = "sleep" /\ ~Due(subs[s]))

ReceivedData(s) == {subs[s].received[i].data : i \in DOMAIN subs[s].received}

\* Readings stamped within the last sleep interval, (now - 3 s, now]
RecentlyAppended ==
    {i \in DOMAIN appended :
        /\ DtLt(PlusSeconds(now, 0 - SleepSeconds),
                InstantOf(appended[i].timestamp))
        /\ DtLe(InstantOf(appended[i].timestamp), now)}

(***************************************************************************)
(* C1: the buffer never holds more than 100 readings, holds exactly the    *)
(* min(total, 100) most recently appended readings in append order, and    *)
(* their timestamps are non-decreasing (so an append to a full buffer      *)
(* drops the oldest reading and puts the new one at the tail).             *)
(***************************************************************************)
C1_BufferKeepsMostRecent ==
    /\ Len(recent_readings) <= MaxLenDeque
    /\ recent_readings = LastN(appended, MaxLenDeque)
    /\ Chronological(recent_readings)

\* Two generators have both appended, and a bootstrap reading was evicted
C1_Witness ==
    /\ Len(appended) > MaxLenDeque
    /\ Len(recent_readings) = MaxLenDeque
    /\ recent_readings[1] # appended[1]
    /\ recent_readings[MaxLenDeque] = appended[Len(appended)]
    /\ \E s, t \in SubIds :
          s # t /\ subs[s].received # <<>> /\ subs[t].received # <<>>

(***************************************************************************)
(* C2 (as claimed): every reading appended while two viewers are both      *)
(* streaming is delivered to both of them.  Stated at rest: when both      *)
(* generators sleep, each has received every reading the other received    *)
(* since its own first event.                                              *)
(***************************************************************************)
C2_EveryViewerGetsEveryReading ==
    \A s, t \in SubIds :
        (s # t /\ subs[s].pc = "sleep" /\ subs[t].pc = "sleep") =>
            \A r \in ReceivedData(s) :
                r.id >= subs[t].received[1].data.id => r \in ReceivedData(t)

(***************************************************************************)
(* C3 (as claimed): one reading is appended per 3-second interval whatever *)
(* the number of viewers.  Stated at rest, once a full interval has        *)
(* passed: exactly one reading is stamped within the last 3 seconds.       *)
(***************************************************************************)
C3_OneReadingPerInterval ==
    (Quiescent /\ elapsed >= SleepSeconds) =>
        Cardinality(RecentlyAppended) = 1

(***************************************************************************)
(* C4 (as claimed): after a viewer disconnects (even the last one)         *)
(* readings keep being appended every 3 seconds.  Stated at rest: when a   *)
(* stream ended less than 3 seconds after a reading was appended, and a    *)
(* full interval has passed since it ended, a reading has been appended    *)
(* after it ended.                                                         *)
(***************************************************************************)
C4_ProducerOutlivesViewers ==
    \A s \in SubIds :
        (/\ Quiescent
         /\ subs[s].pc = "closed"
         /\ DtLt(PlusSeconds(subs[s].closedTime, 0 - SleepSeconds),
                 InstantOf(appended[subs[s].closedAt].timestamp))
         /\ DtLe(PlusSeconds(subs[s].closedTime, SleepSeconds), now)) =>
            Len(appended) > subs[s].closedAt

(***************************************************************************)
(* C5: a stream ending (cancelled, closed or failed) ends only itself:     *)
(* in the step that closes one generator every other subscription is left  *)
(* exactly as it was, the buffer is as it was or has taken the ending      *)
(* generator's last reading, and a closed generator stays closed and       *)
(* never yields another event.                                             *)
(***************************************************************************)
C5_FailureIsIsolated ==
    [][\A s \in SubIds :
          /\ (IsOpen(subs[s]) /\ subs'[s].pc = "closed") =>
                /\ \A t \in SubIds \ {s} : subs'[t] = subs[t]
                /\ \/ recent_readings' = recent_readings
                   \/ recent_readings' =
                          DequeAppend(recent_readings,
                                      appended'[Len(appended')])
          /\ subs[s].pc = "closed" =>
                /\ subs'[s].pc = "closed"
                /\ subs'[s].received = subs[s].received]_vars

\* One stream has ended and another has since received a new reading
C5_Witness ==
    \E s, t \in SubIds :
        /\ subs[s].pc = "closed"
        /\ subs[s].closedAt > subs[t].since
        /\ IsOpen(subs[t])
        /\ \E r \in ReceivedData(t) : r.id > subs[s].closedAt
        /\ recent_readings[Len(recent_readings)].id > subs[s].closedAt

(***************************************************************************)
(* C6 (as claimed): metrics.connection_count equals the number of open     *)
(* /stream subscriptions.  Stated at rest, when no generator is runnable.  *)
(***************************************************************************)
C6_CountEqualsOpenStreams ==
    Quiescent => connection_count = Cardinality(OpenSubs)

(***************************************************************************)
(* C7: every viewer's events carry strictly increasing timestamps, each    *)
(* delivered reading is one that was appended to the buffer before it was  *)
(* delivered, and none was appended before the viewer connected.           *)
(***************************************************************************)
C7_InOrderNoBacklog ==
    \A s \in SubIds :
        LET rec == subs[s].received
        IN /\ \A i \in 1..(Len(rec) - 1) :
                 DtLt(InstantOf(rec[i].data.timestamp),
                      InstantOf(rec[i + 1].data.timestamp))
           /\ \A i \in DOMAIN rec :
                 /\ rec[i].event = "sensor_update"
                 /\ rec[i].data.id <= Len(appended)
                 /\ appended[rec[i].data.id] = rec[i].data
                 /\ rec[i].data.id > subs[s].since

\* A viewer has received two events while another viewer was streaming too
C7_Witness ==
    \E s, t \in SubIds :
        /\ s # t
        /\ Len(subs[s].received) >= 2
        /\ subs[t].received # <<>>
        /\ subs[s].since >= BootstrapCount

(***************************************************************************)
(* Helpers for the claims about detect_anomalies                           *)
(***************************************************************************)
Temps(buf) == [k \in DOMAIN buf |-> buf[k].temperature]

AllSameTemperature(buf) ==
    \A i, j \in DOMAIN buf : buf[i].temperature = buf[j].temperature

Returned == detect # None /\ ~detect.raised

\* |z| > 2 with z = (x - mean) / sample standard deviation; no reading has
\* a z-score when the standard deviation is 0
IsOutlier(x, col) ==
    /\ ScaledVar(col) > 0
    /\ ScaledDev(x, col) * ScaledDev(x, col) * (Len(col) - 1)
          > ZThreshold * ZThreshold * Len(col) * ScaledVar(col)

OutlierIds(buf) ==
    LET Out(r) == IsOutlier(r.temperature, Temps(buf))
        kept == SelectSeq(buf, Out)
    IN [k \in DOMAIN kept |-> kept[k].id]

\* The readings a result lists, identified by the parsed timestamp and the
\* temperature of each row
ListedIds(buf, anomalies) ==
    [k \in DOMAIN anomalies |->
        buf[CHOOSE i \in DOMAIN buf :
                /\ strptime(buf[i].timestamp) = anomalies[k].timestamp
                /\ buf[i].temperature = anomalies[k].temperature].id]

(***************************************************************************)
(* C8 (as claimed): with at least 10 readings that all have the same       *)
(* temperature, detect_anomalies returns an empty list.                    *)
(***************************************************************************)
C8_NoAnomalyWhenAllEqual ==
    (/\ Returned
     /\ Len(recent_readings) >= MinSample
     /\ AllSameTemperature(recent_readings)) =>
        detect.anomalies = <<>>

(***************************************************************************)
(* C9 (as claimed): with at least 10 readings, detect_anomalies returns    *)
(* exactly the readings with |z| > 2, z = (temperature - mean) / sample    *)
(* standard deviation, in buffer (ascending timestamp) order.              *)
(***************************************************************************)
C9_ExactlyTheOutliers ==
    (Returned /\ Len(recent_readings) >= MinSample) =>
        ListedIds(recent_readings, detect.anomalies)
            = OutlierIds(recent_readings)

(***************************************************************************)
(* C10 (as claimed): with fewer than 10 readings detect_anomalies returns  *)
(* an empty list and does not raise.                                       *)
(***************************************************************************)
C10_TooFewReadingsGiveEmpty ==
    (detect # None /\ Len(recent_readings) < MinSample) =>
        (~detect.raised /\ detect.anomalies = <<>>)

\* A buffer of k >= 1 readings that all hold the same values
IdenticalReadings(buf) ==
    /\ buf # <<>>
    /\ \A k \in DOMAIN buf : SameValues(buf[k], buf[1])

Summarised ==
    /\ response # None
    /\ response.call = "get_statistical_summary"
    /\ ~response.raised

\* The statistic is reported, in every row, as the number v
MeanIs(cells, v) ==
    /\ cells # <<>>
    /\ \A k \in DOMAIN cells : cells[k].num = v * cells[k].den

StdIsZero(cells) ==
    /\ cells # <<>>
    /\ \A k \in DOMAIN cells : cells[k] # Null /\ cells[k].var = 0

(***************************************************************************)
(* C11: for a buffer of k >= 1 identical readings, the summary reports     *)
(* for temperature, humidity and pressure a mean equal to the common value *)
(* and a standard deviation of 0, also when k = 1.                         *)
(***************************************************************************)
C11_IdenticalReadingsHaveZeroStd ==
    (Summarised /\ IdenticalReadings(recent_readings)) =>
        /\ MeanIs(response.stats.temp_mean, recent_readings[1].temperature)
        /\ StdIsZero(response.stats.temp_std)
        /\ MeanIs(response.stats.humidity_mean, recent_readings[1].humidity)
        /\ StdIsZero(response.stats.humidity_std)
        /\ MeanIs(response.stats.pressure_mean, recent_readings[1].pressure)
        /\ StdIsZero(response.stats.pressure_std)

\* What each read operation gives when there is nothing to read
ReportsNoData(r) ==
    /\ ~r.raised
    /\ r.call = "get_sensor_dataframe" => r.df = <<>>
    /\ r.call = "get_statistical_summary" => r.stats = EmptyDict
    /\ r.call = "/sensor-data" => r.data = None
    /\ r.call = "/metrics" => r.latest_reading_time = None

(***************************************************************************)
(* C12: on an empty buffer no read operation raises: the frame is empty,   *)
(* the summary is the empty dict, detect_anomalies gives the empty list,   *)
(* /sensor-data and /metrics report None for the latest reading, and the   *)
(* buffer is still empty afterwards.                                       *)
(***************************************************************************)
C12_EmptyBufferReadsAreSafe ==
    appended = <<>> =>
        /\ recent_readings = <<>>
        /\ detect # None => detect = [raised |-> FALSE, anomalies |-> <<>>]
        /\ response # None => ReportsNoData(response)

C12_Witness ==
    /\ appended = <<>>
    /\ recent_readings = <<>>
    /\ detect # None
    /\ response # None
    /\ response.call = "/sensor-data"

\* The instant SensorData() was constructed (base_time + 10 minutes)
BootInstant == PlusSeconds(now, 0 - elapsed)

EvenlySpaced(buf, gap) ==
    \A i \in 1..(Len(buf) - 1) :
        InstantOf(buf[i + 1].timestamp)
            = PlusSeconds(InstantOf(buf[i].timestamp), gap)

(***************************************************************************)
(* C13: right after the bootstrap of an empty buffer, the buffer holds     *)
(* exactly 50 readings, each 12 seconds after the one before, and the      *)
(* latest is stamped less than 12 seconds before the bootstrap instant.    *)
(***************************************************************************)
C13_BootstrapEndsNow ==
    boot = Booted =>
        /\ Len(recent_readings) = BootstrapCount
        /\ EvenlySpaced(recent_readings, BootstrapSpacing)
        /\ LET last == InstantOf(recent_readings[Len(recent_readings)].timestamp)
           IN /\ DtLe(last, BootInstant)
              /\ DtLt(PlusSeconds(BootInstant, 0 - BootstrapSpacing), last)

IsCharts == response # None /\ response.call = "/charts"

(***************************************************************************)
(* C14: the frame, the anomaly list and the summary of one /charts request *)
(* are computed from the same buffer contents: no generator appends        *)
(* between the three reads, and the reads leave the buffer as it was.      *)
(***************************************************************************)
C14_ChartsSeeOneBuffer ==
    IsCharts =>
        /\ \A i \in DOMAIN response.saw : response.saw[i] = response.saw[1]
        /\ ChartsRunning => Ids(recent_readings) = response.saw[1]

C14_Witness ==
    /\ IsCharts
    /\ response.pc = "done"
    /\ ~response.raised
    /\ Len(response.saw) = 3
    /\ Len(response.saw[1]) = MaxLenDeque
    /\ \E s \in SubIds : subs[s].pc \in {"created", "yield", "sleep"}
    /\ Ids(recent_readings) # response.saw[1]

=============================================================================
